---- MODULE Spec2Model ----
(***************************************************************************)
(* Model of csv2latex-table.py: escape_latex, process_header_row and       *)
(* csv_to_latex_table.                                                     *)
(*                                                                         *)
(* A Python str is a sequence of one-character strings, a Python list a    *)
(* sequence.  Python indices are 0-based: index i of the code is element   *)
(* i+1 of the sequence.                                                    *)
(***************************************************************************)
EXTENDS Integers, Sequences, FiniteSets, TLC

VARIABLES
    pc,               \* position of the running call
    s,                \* escape_latex: the argument
    out,              \* escape_latex: the returned string
    row,              \* process_header_row: the argument row
    prev_row,         \* process_header_row: the argument prev_row (Some/None)
    subgroup_ranges,  \* process_header_row: the ranges collected by the first loop
    processed,        \* process_header_row: the returned list
    encoding,         \* csv_to_latex_table: what detect_encoding returned
    tried,            \* csv_to_latex_table: encodings the read loop has opened, in order
    data,             \* csv_to_latex_table: the local 'data'
    raw,              \* csv_to_latex_table: 'data' as read, before padding
    header_lines,     \* csv_to_latex_table: the argument header_lines
    landscape,        \* csv_to_latex_table: the argument landscape
    ncols,            \* csv_to_latex_table: the local 'ncols'
    header_rows,      \* csv_to_latex_table: the local 'header_rows'
    prev_args,        \* csv_to_latex_table: the prev_row passed to each process_header_row call
    rows,             \* csv_to_latex_table: the local 'rows'
    doc,              \* the strings written to output_tex, one per f.write call
    result,           \* csv_to_latex_table: "True"/"False" returned, "fault" raised, or "none"
    diag              \* csv_to_latex_table: the error message it printed

escVars == <<s, out>>
hdrVars == <<row, prev_row, subgroup_ranges, processed>>
tblVars == <<encoding, tried, data, raw, header_lines, landscape, ncols,
             header_rows, prev_args, rows, doc, result, diag>>
vars == <<pc, escVars, hdrVars, tblVars>>

(***************************************************************************)
(* Bounds of the model.                                                    *)
(***************************************************************************)
MaxLen == 2
MaxRowLen == 4
MaxPrevLen == 3
MaxRows == 2
MaxCols == 2

(***************************************************************************)
(* Generic sequence helpers.                                               *)
(***************************************************************************)
SeqsUpTo(S, n) == UNION {[1..k -> S] : k \in 0..n}

Range(q) == {q[i] : i \in 1..Len(q)}

RECURSIVE Flatten(_)
Flatten(qs) == IF qs = <<>> THEN <<>> ELSE Head(qs) \o Flatten(Tail(qs))

(***************************************************************************)
(* escape_latex                                                            *)
(***************************************************************************)
\* The characters str.strip() removes (the ones the model's inputs contain).
Whitespace == {" ", "\t", "\n"}

RECURSIVE LStrip(_)
LStrip(str) ==
    IF str # <<>> /\ Head(str) \in Whitespace THEN LStrip(Tail(str)) ELSE str

RECURSIVE RStrip(_)
RStrip(str) ==
    IF str # <<>> /\ str[Len(str)] \in Whitespace
    THEN RStrip(SubSeq(str, 1, Len(str) - 1))
    ELSE str

\* Variant of Strip: the argument compared as it is.
StripNone(str) == str

\* str.strip()
Strip(str) == RStrip(LStrip(str))

\* r'\textemdash'
Marker == <<"\\", "t", "e", "x", "t", "e", "m", "d", "a", "s", "h">>

\* ['', 'NA', 'N/A', 'NaN', 'None', '\\', '//', '---', '_']
MissingValues ==
    { <<>>, <<"N", "A">>, <<"N", "/", "A">>, <<"N", "a", "N">>,
      <<"N", "o", "n", "e">>, <<"\\">>, <<"/", "/">>, <<"-", "-", "-">>,
      <<"_">> }

Slash == <<"/">>

\* The replacements list, in the order of the code: (orig, repl).
replacements ==
    << << "\\", <<"\\","t","e","x","t","b","a","c","k","s","l","a","s","h","{","}">> >>,
       << "&",  <<"\\", "&">> >>,
       << "%",  <<"\\", "%">> >>,
       << "$",  <<"\\", "$">> >>,
       << "#",  <<"\\", "#">> >>,
       << "_",  <<"\\", "_">> >>,
       << "{",  <<"\\", "{">> >>,
       << "}",  <<"\\", "}">> >>,
       << "~",  <<"\\","t","e","x","t","a","s","c","i","i","t","i","l","d","e","{","}">> >>,
       << "^",  <<"\\","t","e","x","t","a","s","c","i","i","c","i","r","c","u","m","{","}">> >>,
       << "<",  <<"\\","t","e","x","t","l","e","s","s","{","}">> >>,
       << ">",  <<"\\","t","e","x","t","g","r","e","a","t","e","r","{","}">> >>,
       << "[",  <<"{", "[", "}">> >>,
       << "]",  <<"{", "]", "}">> >> >>

\* str.replace(orig, repl) for a one-character orig.
RECURSIVE Replace(_, _, _)
Replace(str, orig, repl) ==
    IF str = <<>> THEN <<>>
    ELSE (IF Head(str) = orig THEN repl ELSE <<Head(str)>>)
         \o Replace(Tail(str), orig, repl)

\* for orig, repl in replacements: s = s.replace(orig, repl), from entry k on.
RECURSIVE ApplyFrom(_, _)
ApplyFrom(str, k) ==
    IF k > Len(replacements) THEN str
    ELSE ApplyFrom(Replace(str, replacements[k][1], replacements[k][2]), k + 1)

ApplyReplacements(str) == ApplyFrom(str, 1)

escape_latex(str) ==
    IF Strip(str) \in MissingValues THEN Marker
    ELSE IF Strip(str) = Slash THEN Slash
    ELSE ApplyReplacements(str)

(***************************************************************************)
(* process_header_row                                                      *)
(***************************************************************************)
\* start_idx = None
NoIdx == -1

\* prev_row=None, and a prev_row that was passed.
NoRow == [some |-> FALSE, cells |-> <<>>]
SomeRow(r) == [some |-> TRUE, cells |-> r]

\* "cell and cell != r'\textemdash'"
IsPopulated(cell) == cell # <<>> /\ cell # Marker

\* The first loop over enumerate(row), from index i on: <<start_idx, subgroup_ranges>>
\* when the loop ends.
RECURSIVE ScanRow(_, _, _, _)
ScanRow(r, i, start_idx, ranges) ==
    IF i >= Len(r) THEN <<start_idx, ranges>>
    ELSE IF IsPopulated(r[i + 1])
         THEN IF start_idx # NoIdx
              THEN ScanRow(r, i + 1, NoIdx, Append(ranges, <<start_idx, i - 1>>))
              ELSE ScanRow(r, i + 1, start_idx, ranges)
         ELSE IF start_idx = NoIdx
              THEN ScanRow(r, i + 1, i, ranges)
              ELSE ScanRow(r, i + 1, start_idx, ranges)

\* Variant of SubgroupRanges: a run open at the end of the row is not closed.
SubgroupRangesNoTail(r) == ScanRow(r, 0, NoIdx, <<>>)[2]

\* subgroup_ranges after "if start_idx is not None: append((start_idx, n-1))".
SubgroupRanges(r) ==
    LET st == ScanRow(r, 0, NoIdx, <<>>)
    IN  IF st[1] # NoIdx THEN Append(st[2], <<st[1], Len(r) - 1>>) ELSE st[2]

\* Variant of Covers: the index just after the range counts too.
CoversOrNext(rg, i) == rg[1] <= i /\ i <= rg[2] + 1

\* "start <= i <= end" for one range (start, end)
Covers(rg, i) == rg[1] <= i /\ i <= rg[2]

\* any(start <= i <= end for start, end in subgroup_ranges)
InSubgroup(i, ranges) == \E k \in 1..Len(ranges) : Covers(ranges[k], i)

\* prev_row and i < len(prev_row) and prev_row[i] and prev_row[i] != r'\textemdash'
PrevHasContent(prev, i) ==
    /\ prev.some
    /\ prev.cells # <<>>
    /\ i < Len(prev.cells)
    /\ IsPopulated(prev.cells[i + 1])

\* next((r for r in subgroup_ranges if r[0] <= i <= r[1]), None): the first match,
\* <<>> for None.
RangeOf(i, ranges) ==
    LET hits == {k \in 1..Len(ranges) : Covers(ranges[k], i)}
    IN  IF hits # {} THEN ranges[CHOOSE k \in hits : \A j \in hits : k <= j]
        ELSE <<>>

Digit == <<"0", "1", "2", "3", "4", "5", "6", "7", "8", "9">>

\* str(n) for n >= 0
RECURSIVE ToStr(_)
ToStr(n) ==
    IF n < 10 THEN <<Digit[n + 1]>>
    ELSE ToStr(n \div 10) \o <<Digit[(n % 10) + 1]>>

\* r"\cmidrule(lr){" + f"{start+1}-{end+1}" + r"}" + "\n"
Cmidrule(start, end) ==
    <<"\\", "c", "m", "i", "d", "r", "u", "l", "e", "(", "l", "r", ")", "{">>
    \o ToStr(start + 1) \o <<"-">> \o ToStr(end + 1) \o <<"}", "\n">>

\* The second loop over enumerate(row), from index i on: what it appends.
RECURSIVE ProcessCells(_, _, _, _)
ProcessCells(r, prev, ranges, i) ==
    IF i >= Len(r) THEN <<>>
    ELSE LET cell == r[i + 1]
             in_subgroup == InSubgroup(i, ranges)
             prev_has_content == PrevHasContent(prev, i)
             subgroup_range == RangeOf(i, ranges)
             here ==
                 IF IsPopulated(cell)
                 THEN (IF in_subgroup /\ ~prev_has_content /\ subgroup_range # <<>>
                       THEN <<Cmidrule(subgroup_range[1], subgroup_range[2])>>
                       ELSE <<>>) \o <<cell>>
                 ELSE << <<>> >>
         IN  here \o ProcessCells(r, prev, ranges, i + 1)

process_header_row(r, prev) == ProcessCells(r, prev, SubgroupRanges(r), 0)

(***************************************************************************)
(* csv_to_latex_table                                                      *)
(***************************************************************************)
\* What detect_encoding can return: chardet's answer, or 'utf-8'.
DetectedEncodings == {"utf-8", "ISO-8859-1"}

\* encodings_to_try = [encoding, 'latin1', 'cp1252', 'iso-8859-1', 'utf-16']
encodings_to_try(enc) == <<enc, "latin1", "cp1252", "iso-8859-1", "utf-16">>

\* The fields csv.reader yields in the model's input files.
RawCells == {<<>>, <<"a", "&">>}

\* The row lists list(csv.reader(f)) can yield: rows of unequal length, or none.
RawRows == SeqsUpTo(RawCells, MaxCols)
Tables == SeqsUpTo(RawRows, MaxRows)

\* What list(reader) had read when open or list raised.
PartialTables == SeqsUpTo(RawRows, 1)

\* Variant of ReadAttempt: the rows read before an error are kept.
ReadAttemptKeepsPartial(old, raises, got) == got

\* One pass of the try block: "data = list(reader)" assigns only when list(reader)
\* returns; when open or list raises, data keeps its value and 'got' (the rows
\* read before the error) is dropped.
ReadAttempt(old, raises, got) == IF raises THEN old ELSE got

\* Variant of NotEnoughRows: the row count is not checked.
NotEnoughRowsUnchecked(d, h) == FALSE

\* len(data) < header_lines
NotEnoughRows(d, h) == Len(d) < h

\* max(len(row) for row in data), data not empty
MaxRowLength(d) ==
    CHOOSE n \in {Len(d[k]) : k \in 1..Len(d)} : \A k \in 1..Len(d) : Len(d[k]) <= n

\* Variant of PadRow: short rows are filled with the marker.
PadRowWithMarker(r, n) ==
    IF Len(r) < n THEN r \o [k \in 1..(n - Len(r)) |-> Marker] ELSE r

\* row + [''] * (ncols - len(row)) if len(row) < ncols else row
PadRow(r, n) ==
    IF Len(r) < n THEN r \o [k \in 1..(n - Len(r)) |-> <<>>] ELSE r

\* padded_data
PadData(d, n) == [k \in 1..Len(d) |-> PadRow(d[k], n)]

\* [escape_latex(cell) for cell in row]
EscapeRow(r) == [k \in 1..Len(r) |-> escape_latex(r[k])]

\* Variant of PrevRowFor: no previous row is passed.
PrevRowDropped(hrows) == NoRow

\* header_rows[-1] if header_rows else None
PrevRowFor(hrows) == IF hrows # <<>> THEN SomeRow(hrows[Len(hrows)]) ELSE NoRow

\* for i in range(header_lines), from i on: <<header_rows, the prev_row of each call,
\* whether data[i] raised IndexError>>.
RECURSIVE ProcessHeaders(_, _, _, _, _)
ProcessHeaders(d, h, i, hrows, prevs) ==
    IF i >= h THEN <<hrows, prevs, FALSE>>
    ELSE IF i >= Len(d) THEN <<hrows, prevs, TRUE>>
    ELSE LET escaped_row == EscapeRow(d[i + 1])
             prev == PrevRowFor(hrows)
         IN  ProcessHeaders(d, h, i + 1,
                            Append(hrows, process_header_row(escaped_row, prev)),
                            Append(prevs, prev))

\* for i in range(header_lines, len(data)): rows.append([escape_latex(cell) ...])
DataRows(d, h) ==
    IF h >= Len(d) THEN <<>>
    ELSE [k \in 1..(Len(d) - h) |-> EscapeRow(d[h + k])]

\* One f.write call: a literal text, a computed part, a literal text.
Chunk(pre, arg, post) == [pre |-> pre, arg |-> arg, post |-> post]
Lit(text) == Chunk(text, <<>>, "")

\* sep.join(cells)
RECURSIVE Join(_, _)
Join(cells, sep) ==
    IF cells = <<>> THEN <<>>
    ELSE IF Len(cells) = 1 THEN cells[1]
    ELSE cells[1] \o sep \o Join(Tail(cells), sep)

\* Variant of JoinCells: the separator without its blanks.
JoinTight(cells) == Join(cells, <<"&">>)

\* " & ".join(row)
JoinCells(cells) == Join(cells, <<" ", "&", " ">>)

\* f.write(" & ".join(row) + r" \\" + "\n")
RowLine(cells) == Chunk("", JoinCells(cells), " \\\\\n")

\* f"{w}" for base_width = 2.0
BaseWidth == <<"2", ".", "0">>

\* f">{{\\raggedright\\arraybackslash}}p{{{w}cm}}"
ColSpec(w) ==
    <<">", "{", "\\", "r", "a", "g", "g", "e", "d", "r", "i", "g", "h", "t",
      "\\", "a", "r", "r", "a", "y", "b", "a", "c", "k", "s", "l", "a", "s", "h",
      "}", "p", "{">> \o w \o <<"c", "m", "}">>

\* f.write("    " + "\n    ".join(col_specs) + "\n")
ColSpecsLine(n) ==
    Chunk("    ", Join([k \in 1..n |-> ColSpec(BaseWidth)], <<"\n", " ", " ", " ", " ">>), "\n")

\* The caption and label arguments (TABLE_CAPTION, TABLE_LABEL), shortened.
Caption == <<"C", "a", "p">>
Label == <<"t", "a", "b", ":", "x">>

\* for i, row in enumerate(header_rows): the row, and \bottomrule after the last.
HeaderBlock(hrows) ==
    Flatten([i \in 1..Len(hrows) |->
                <<RowLine(hrows[i])>>
                \o (IF i = Len(hrows) THEN <<Lit("\\bottomrule\n")>> ELSE <<>>)])

\* Every f.write of the with block, in order.
Document(land, n, hrows, drows) ==
    (IF land THEN <<Lit("\\begin{landscape}\n")>> ELSE <<>>)
    \o << Lit("{\\footnotesize\n"),
          Lit("\\setlength\\LTleft{0pt}\n"),
          Lit("\\setlength\\LTright{0pt}\n\n"),
          Lit("\\begin{longtable}[p]{\n"),
          ColSpecsLine(n),
          Lit("}\n\n"),
          Chunk("\\caption{", Caption, "}\n"),
          Chunk("\\label{", Label, "} \\\\\n"),
          Lit("\\toprule\n") >>
    \o HeaderBlock(hrows)
    \o << Lit("\\endfirsthead\n\n"),
          Chunk("\\multicolumn{", ToStr(n),
                "}{c}{{\\bfseries \\tablename\\ \\thetable{} -- continued from previous page}} \\\\\n"),
          Lit("\\toprule\n") >>
    \o HeaderBlock(hrows)
    \o << Lit("\\endhead\n\n"),
          Lit("\\bottomrule\n"),
          Chunk("\\multicolumn{", ToStr(n), "}{r}{{Continued on next page}} \\\\\n"),
          Lit("\\endfoot\n\n"),
          Lit("\\bottomrule\n"),
          Lit("\\endlastfoot\n\n") >>
    \o [k \in 1..Len(drows) |-> RowLine(drows[k])]
    \o << Lit("\\end{longtable}\n"), Lit("}\n") >>
    \o (IF land THEN <<Lit("\\end{landscape}\n")>> ELSE <<>>)

\* Where the with block can stop: after every write, or with an exception raised
\* by open (nothing written) or by the last write.
WritePoints(full) == {0, Len(full) - 1, Len(full)}

(***************************************************************************)
(* The three calls as state machines.                                      *)
(***************************************************************************)
\* The variables of a call that is not running.
EscIdle == s = <<>> /\ out = <<>>
HdrIdle == row = <<>> /\ prev_row = NoRow /\ subgroup_ranges = <<>> /\ processed = <<>>
TblIdle ==
    /\ encoding = "" /\ tried = <<>> /\ data = <<>> /\ raw = <<>>
    /\ header_lines = 0 /\ landscape = FALSE /\ ncols = 0
    /\ header_rows = <<>> /\ prev_args = <<>> /\ rows = <<>> /\ doc = <<>>
    /\ result = "none" /\ diag = ""

---------------------------------------------------------------------------
\* escape_latex(s)

\* The characters of the argument: the fourteen the replacements list names, a
\* letter, a slash and a blank.
EscChars ==
    {"\\", "&", "%", "$", "#", "_", "{", "}", "~", "^", "<", ">", "[", "]",
     "a", "/", " "}

\* Whitespace around the argument.
Pads == {<<>>, <<" ">>, <<"\t", " ">>, <<"\n">>}

EscInputs ==
    {l \o core \o r : l \in Pads, r \in Pads,
                      core \in SeqsUpTo(EscChars, MaxLen) \cup MissingValues}

InitEscape ==
    /\ pc = "escape_call"
    /\ s \in EscInputs
    /\ out = <<>>
    /\ HdrIdle
    /\ TblIdle

EscapeLatex ==
    /\ pc = "escape_call"
    /\ out' = escape_latex(s)
    /\ pc' = "escape_done"
    /\ UNCHANGED <<s, hdrVars, tblVars>>

SpecEscape == InitEscape /\ [][EscapeLatex]_vars

---------------------------------------------------------------------------
\* process_header_row(row, prev_row)

\* The cells of an escaped header row, and of a previous row.
HeaderCells == {<<>>, Marker, <<"A">>, <<"B">>}
PrevCells == {<<>>, Marker, <<"A">>, <<"C">>}

InitHeader ==
    /\ pc = "header_call"
    /\ row \in SeqsUpTo(HeaderCells, MaxRowLen)
    /\ prev_row \in {NoRow} \cup {SomeRow(r) : r \in SeqsUpTo(PrevCells, MaxPrevLen)}
    /\ subgroup_ranges = <<>>
    /\ processed = <<>>
    /\ EscIdle
    /\ TblIdle

ProcessHeaderRow ==
    /\ pc = "header_call"
    /\ subgroup_ranges' = SubgroupRanges(row)
    /\ processed' = process_header_row(row, prev_row)
    /\ pc' = "header_done"
    /\ UNCHANGED <<row, prev_row, escVars, tblVars>>

SpecHeader == InitHeader /\ [][ProcessHeaderRow]_vars

---------------------------------------------------------------------------
\* csv_to_latex_table(input_csv, output_tex, caption, label, landscape, header_lines)

Init ==
    /\ pc = "read"
    /\ encoding \in DetectedEncodings
    /\ header_lines \in 1..(MaxRows + 1)
    /\ landscape \in BOOLEAN
    /\ tried = <<>> /\ data = <<>> /\ raw = <<>> /\ ncols = 0
    /\ header_rows = <<>> /\ prev_args = <<>> /\ rows = <<>> /\ doc = <<>>
    /\ result = "none" /\ diag = ""
    /\ EscIdle
    /\ HdrIdle

\* One pass of "for enc in encodings_to_try": open and list(reader) raise, or
\* return the row list 'got'; "if data: break" ends the loop, as does the last pass.
TryEncoding ==
    /\ pc = "read"
    /\ Len(tried) < Len(encodings_to_try(encoding))
    /\ \E raises \in BOOLEAN : \E got \in (IF raises THEN PartialTables ELSE Tables) :
          LET enc == encodings_to_try(encoding)[Len(tried) + 1]
              new == ReadAttempt(data, raises, got)
              ok == ~raises /\ new # <<>>
              last == Len(tried) + 1 = Len(encodings_to_try(encoding))
          IN  /\ tried' = Append(tried, [enc |-> enc, ok |-> ok,
                                         rows |-> IF ok THEN got ELSE <<>>])
              /\ data' = new
              /\ pc' = IF ok \/ last THEN "loaded" ELSE "read"
    /\ UNCHANGED <<encoding, raw, header_lines, landscape, ncols, header_rows,
                   prev_args, rows, doc, result, diag, escVars, hdrVars>>

\* if not data: return False.  Otherwise the function goes on; the loop's locals
\* (encoding, enc) are not read again and are dropped from the state.
CheckData ==
    /\ pc = "loaded"
    /\ IF data = <<>>
       THEN /\ diag' = "Error: Could not read CSV data"
            /\ result' = "False" /\ pc' = "returned" /\ UNCHANGED <<encoding, tried>>
       ELSE /\ pc' = "validate" /\ encoding' = "" /\ tried' = <<>>
            /\ UNCHANGED <<result, diag>>
    /\ UNCHANGED <<data, raw, header_lines, landscape, ncols, header_rows,
                   prev_args, rows, doc, escVars, hdrVars>>

\* if len(data) < header_lines: return False
ReturnNotEnoughRows ==
    /\ pc = "validate"
    /\ NotEnoughRows(data, header_lines)
    /\ diag' = "Error: Not enough rows for header lines"
    /\ result' = "False"
    /\ pc' = "returned"
    /\ UNCHANGED <<encoding, tried, data, raw, header_lines, landscape, ncols,
                   header_rows, prev_args, rows, doc, escVars, hdrVars>>

\* The rest of the function: padding, the header and data loops, and the with
\* block, which ends after its last write (return True) or with an exception
\* (return False).  An IndexError in the header loop is not caught.
Convert ==
    /\ pc = "validate"
    /\ ~NotEnoughRows(data, header_lines)
    /\ \E n \in {MaxRowLength(data)} :
       \E padded \in {PadData(data, n)} :
       \E hdr \in {ProcessHeaders(padded, header_lines, 0, <<>>, <<>>)} :
       \E drows \in {DataRows(padded, header_lines)} :
          /\ raw' = data
          /\ ncols' = n
          /\ data' = padded
          /\ header_rows' = hdr[1]
          /\ prev_args' = hdr[2]
          /\ IF hdr[3]
             THEN rows' = <<>> /\ doc' = <<>> /\ result' = "fault" /\ diag' = diag
             ELSE /\ rows' = drows
                  /\ \E full \in {Document(landscape, n, hdr[1], drows)} :
                     \E written \in WritePoints(full) :
                        /\ doc' = SubSeq(full, 1, written)
                        /\ result' = IF written = Len(full) THEN "True" ELSE "False"
                        /\ diag' = IF written = Len(full) THEN diag
                                   ELSE "Error writing LaTeX"
    /\ pc' = "returned"
    /\ UNCHANGED <<encoding, tried, header_lines, landscape, escVars, hdrVars>>

Next == TryEncoding \/ CheckData \/ ReturnNotEnoughRows \/ Convert

Spec == Init /\ [][Next]_vars

(***************************************************************************)
(* Properties of escape_latex (checked under SpecEscape).                  *)
(***************************************************************************)
\* x without its surrounding whitespace, said without the code's loops: the
\* part of x between its first and its last non-whitespace character.
Trimmed(x) ==
    LET inked == {i \in 1..Len(x) : x[i] \notin Whitespace}
    IN  IF inked = {} THEN <<>>
        ELSE SubSeq(x, CHOOSE i \in inked : \A j \in inked : i <= j,
                       CHOOSE i \in inked : \A j \in inked : i >= j)

\* The replacement form of one character: its entry in the replacements list, or
\* the character itself.
FormOf(c) ==
    LET hits == {k \in 1..Len(replacements) : replacements[k][1] = c}
    IN  IF hits = {} THEN <<c>> ELSE replacements[CHOOSE k \in hits : TRUE][2]

\* x with every character replaced once by its own replacement form.
EachReplacedOnce(x) == Flatten([i \in 1..Len(x) |-> FormOf(x[i])])

\* C2: on an argument that reaches the replacement loop (its trimmed value is no
\* missing-value sentinel and not the single slash), escape_latex returns the
\* argument with each special character replaced exactly once by its own
\* replacement form and every other character unchanged: no replacement re-escapes
\* the text an earlier one inserted.
C2_NoReEscaping ==
    (pc = "escape_done" /\ Trimmed(s) \notin MissingValues /\ Trimmed(s) # Slash)
        => out = EachReplacedOnce(s)

\* C3: escape_latex returns exactly the missing-value marker when the trimmed
\* argument is one of the sentinels, whatever whitespace surrounds it, and never
\* returns the marker for any other argument.
C3_SentinelsGiveMarker ==
    pc = "escape_done" => (out = Marker <=> Trimmed(s) \in MissingValues)

\* C3 witness: the sentinel NA between a blank and a newline was escaped.
C3_Witness ==
    /\ pc = "escape_done"
    /\ s = <<" ", "N", "A", "\n">>
    /\ out = Marker

(***************************************************************************)
(* Properties of process_header_row (checked under SpecHeader).            *)
(***************************************************************************)
\* Blank: empty, or the missing-value marker.
IsBlank(cell) == cell = <<>> \/ cell = Marker

\* The maximal runs of blank cells of r, as pairs of 0-based indices.
MaximalBlankRuns(r) ==
    {<<a, b>> \in (0..(Len(r) - 1)) \X (0..(Len(r) - 1)) :
        /\ a <= b
        /\ \A m \in a..b : IsBlank(r[m + 1])
        /\ (a = 0 \/ ~IsBlank(r[a]))
        /\ (b = Len(r) - 1 \/ ~IsBlank(r[b + 2]))}

\* A partial-separator directive: an element of the output that starts \cmidrule.
IsDirective(e) ==
    /\ Len(e) >= 9
    /\ SubSeq(e, 1, 9) = <<"\\", "c", "m", "i", "d", "r", "u", "l", "e">>

\* The elements of the output up to position j that are cells, not directives.
CellsUpTo(j) == Cardinality({m \in 1..j : ~IsDirective(processed[m])})

\* The output attaches directive d to the cell at index i: d is the element just
\* before that cell's element.
Attaches(i, d) ==
    \E j \in 1..(Len(processed) - 1) :
        /\ processed[j] = d
        /\ ~IsDirective(processed[j + 1])
        /\ CellsUpTo(j + 1) = i + 1

\* The output attaches some directive to the cell at index i.
HasDirective(i) ==
    \E j \in 1..(Len(processed) - 1) :
        /\ IsDirective(processed[j])
        /\ ~IsDirective(processed[j + 1])
        /\ CellsUpTo(j + 1) = i + 1

\* prev_row is absent or has no populated cell at index i.
PrevBlankAt(i) ==
    \/ ~prev_row.some
    \/ i >= Len(prev_row.cells)
    \/ IsBlank(prev_row.cells[i + 1])

\* C1: every populated cell at index i that is the first populated cell after a
\* maximal run of blank cells [a, i-1], with prev_row absent or not populated at
\* i, gets a partial-separator directive for the 1-indexed columns a+1..i
\* attached in the formatted output.
C1_DirectiveAfterBlankRun ==
    pc = "header_done" =>
        \A run \in MaximalBlankRuns(row) :
            LET i == run[2] + 1
            IN  (i < Len(row) /\ PrevBlankAt(i)) => Attaches(i, Cmidrule(run[1], run[2]))

\* C7: a populated cell that lies in no subgroup range never receives a
\* directive, whatever prev_row holds, and a row without blank cells comes back
\* unchanged, with no directive anywhere.
C7_NoDirectiveOutsideRanges ==
    pc = "header_done" =>
        /\ \A i \in 0..(Len(row) - 1) :
              (/\ ~IsBlank(row[i + 1])
               /\ \A run \in MaximalBlankRuns(row) : ~(run[1] <= i /\ i <= run[2]))
                  => ~HasDirective(i)
        /\ (\A i \in 1..Len(row) : ~IsBlank(row[i])) => processed = row

\* C7 witness: the row ["A","B"] was formatted under the previous row ["A","C"].
C7_Witness ==
    /\ pc = "header_done"
    /\ row = << <<"A">>, <<"B">> >>
    /\ prev_row = SomeRow(<< <<"A">>, <<"C">> >>)
    /\ processed = row

\* C10: the ranges the first loop collects are exactly the maximal runs of
\* blank cells of the row: in increasing order, pairwise disjoint and never
\* adjacent, covering every blank index once and no populated index; a populated
\* first cell opens no run, a run open at the end of the row ends at the last
\* index, and a fully blank row yields the one range [0, n-1].
C10_RangesAreMaximalBlankRuns ==
    pc = "header_done" =>
        LET n == Len(row)
            k == Len(subgroup_ranges)
            In(i, j) == subgroup_ranges[j][1] <= i /\ i <= subgroup_ranges[j][2]
        IN  /\ Range(subgroup_ranges) = MaximalBlankRuns(row)
            /\ \A j \in 1..k :
                  /\ 0 <= subgroup_ranges[j][1]
                  /\ subgroup_ranges[j][1] <= subgroup_ranges[j][2]
                  /\ subgroup_ranges[j][2] <= n - 1
            /\ \A j \in 1..(k - 1) :
                  subgroup_ranges[j][2] + 1 < subgroup_ranges[j + 1][1]
            /\ \A i \in 0..(n - 1) :
                  IF IsBlank(row[i + 1])
                  THEN Cardinality({j \in 1..k : In(i, j)}) = 1
                  ELSE \A j \in 1..k : ~In(i, j)
            /\ (n > 0 /\ ~IsBlank(row[1])) => \A j \in 1..k : subgroup_ranges[j][1] # 0
            /\ (n > 0 /\ IsBlank(row[n])) => (k > 0 /\ subgroup_ranges[k][2] = n - 1)
            /\ (n > 0 /\ \A i \in 1..n : IsBlank(row[i]))
                  => subgroup_ranges = << <<0, n - 1>> >>

\* C10 witness: a row with a leading blank, and a blank run left open at its end.
C10_Witness ==
    /\ pc = "header_done"
    /\ row = << <<>>, <<"A">>, Marker, <<>> >>
    /\ subgroup_ranges = << <<0, 0>>, <<2, 3>> >>

(***************************************************************************)
(* Properties of csv_to_latex_table (checked under Spec).                  *)
(***************************************************************************)
\* The read loop is running or has just ended: its locals are in the state.
InReadLoop == pc \in {"read", "loaded"} \/ diag = "Error: Could not read CSV data"

\* Every candidate was tried and none decoded into a non-empty row list.
AllCandidatesFailed ==
    /\ Len(tried) = Len(encodings_to_try(encoding))
    /\ \A k \in 1..Len(tried) : ~tried[k].ok

\* What holds of the read loop in every state.
C4_LoopState ==
    LET order == encodings_to_try(encoding)
        n == Len(tried)
    IN  /\ InReadLoop =>
              /\ n <= Len(order)
              /\ \A k \in 1..n : tried[k].enc = order[k]
              /\ order = <<encoding, "latin1", "cp1252", "iso-8859-1", "utf-16">>
              /\ \A k \in 1..(n - 1) : ~tried[k].ok
        /\ pc = "read" => (n < Len(order) /\ data = <<>> /\ (n > 0 => ~tried[n].ok))
        /\ pc = "loaded" =>
              \/ AllCandidatesFailed /\ data = <<>>
              \/ n > 0 /\ tried[n].ok /\ tried[n].rows # <<>> /\ data = tried[n].rows
        /\ diag = "Error: Could not read CSV data" => (AllCandidatesFailed /\ result = "False")
        /\ pc = "validate" => data # <<>>

\* What holds of every step of the read loop and of the step that follows it.
C4_LoopStep ==
    LET n == Len(tried)
    IN  /\ pc = "read" =>
              /\ Len(tried') = n + 1
              /\ SubSeq(tried', 1, n) = tried
              /\ tried'[n + 1].enc = encodings_to_try(encoding)[n + 1]
              /\ tried'[n + 1].ok => (pc' = "loaded" /\ data' = tried'[n + 1].rows)
              /\ ~tried'[n + 1].ok =>
                    /\ data' = <<>>
                    /\ pc' = IF n + 1 < Len(encodings_to_try(encoding))
                             THEN "read" ELSE "loaded"
        /\ pc = "loaded" =>
              /\ AllCandidatesFailed <=>
                    (pc' = "returned" /\ diag' = "Error: Could not read CSV data")
              /\ ~AllCandidatesFailed => (pc' = "validate" /\ data' = data)

\* C4: the read loop tries the candidates in the order [detected encoding, latin1,
\* cp1252, iso-8859-1, utf-16], each at most once; a candidate that raises or
\* yields no rows leaves no rows behind and the next one is tried; the loop stops
\* at the first candidate that decodes into a non-empty row list, and the rows
\* used afterwards are exactly that candidate's rows; "could not read data" is the
\* outcome if and only if every candidate raised or yielded no rows.
C4_EncodingRetryLoop == []C4_LoopState /\ [][C4_LoopStep]_vars

\* C4 witness: two candidates failed and the third one's rows are in data.
C4_Witness ==
    /\ pc = "loaded"
    /\ Len(tried) = 3
    /\ ~tried[1].ok /\ ~tried[2].ok /\ tried[3].ok
    /\ tried[3].enc = "cp1252"
    /\ data = tried[3].rows
    /\ Len(data) = 2

\* The with block ran to its end: every write of the document was made.
DocumentComplete == doc # <<>> /\ doc = Document(landscape, ncols, header_rows, rows)

\* C5: csv_to_latex_table never lets a fault reach its caller and, until it has
\* returned, is at a place that has a step to take (a pass of the read loop that
\* is left, one of the two checks, or the conversion); it returns False when no candidate
\* encoding produced rows, False when the input has fewer rows than header_lines,
\* False when opening or writing the output fails, and True in every other run.
C5_AlwaysReturnsBoolean ==
    /\ result # "fault"
    /\ pc \in {"read", "loaded", "validate", "returned"}
    /\ pc # "returned" => result = "none"
    /\ pc = "read" => Len(tried) < Len(encodings_to_try(encoding))
    /\ pc = "returned" =>
          /\ result \in {"True", "False"}
          /\ CASE diag = "Error: Could not read CSV data" ->
                    result = "False" /\ data = <<>> /\ \A k \in 1..Len(tried) : ~tried[k].ok
               [] diag = "Error: Not enough rows for header lines" ->
                    result = "False" /\ Len(data) < header_lines
               [] diag = "Error writing LaTeX" ->
                    result = "False" /\ ~DocumentComplete
               [] OTHER ->
                    result = "True" /\ DocumentComplete /\ Len(data) >= header_lines
          /\ (data = <<>> \/ Len(data) < header_lines \/ ~DocumentComplete) => result = "False"

\* C5 witness: the conversion got as far as the output file and a write failed.
C5_Witness ==
    /\ pc = "returned"
    /\ result = "False"
    /\ diag = "Error writing LaTeX"
    /\ doc # <<>>

\* C8: after padding every row has exactly ncols fields, ncols being the longest
\* raw row's length; each row keeps its own fields, in order, as its prefix; every
\* added field is the empty string; the rows are as many as before, in order.
C8_RowsPaddedToNcols ==
    (pc = "returned" /\ raw # <<>>) =>
        /\ \A k \in 1..Len(raw) : Len(raw[k]) <= ncols
        /\ \E k \in 1..Len(raw) : Len(raw[k]) = ncols
        /\ Len(data) = Len(raw)
        /\ \A k \in 1..Len(raw) :
              /\ Len(data[k]) = ncols
              /\ SubSeq(data[k], 1, Len(raw[k])) = raw[k]
              /\ \A j \in (Len(raw[k]) + 1)..ncols : data[k][j] = <<>>

\* C8 witness: a table whose first row is shorter than its second was padded.
C8_Witness ==
    /\ pc = "returned"
    /\ Len(raw) = 2
    /\ Len(raw[1]) = 0 /\ Len(raw[2]) = 2
    /\ Len(data[1]) = 2

\* The conversion ran: the rows were padded and the header and data loops done.
Converted == pc = "returned" /\ raw # <<>> /\ result # "fault"

\* C9 as the specification states it: each header row k > 0 is formatted with
\* the previous row's escaped form as prev_row, the first with none, so that
\* formatted row k is process_header_row(escaped row k, escaped row k-1).
C9_PrevRowIsEscapedRow ==
    Converted =>
        /\ Len(header_rows) = header_lines
        /\ Len(prev_args) = header_lines
        /\ \A k \in 1..header_lines :
              LET prev == IF k = 1 THEN NoRow ELSE SomeRow(EscapeRow(data[k - 1]))
              IN  /\ prev_args[k] = prev
                  /\ header_rows[k] = process_header_row(EscapeRow(data[k]), prev)

\* C9, amended: each header row k > 0 is formatted with the previous row's
\* formatted form (the previous entry of header_rows) as prev_row, the first with
\* none; formatted row k is process_header_row(escaped row k, formatted row k-1),
\* and equals process_header_row(escaped row k, escaped row k-1) all the same.
C9_PrevRowIsFormattedRow ==
    Converted =>
        /\ Len(header_rows) = header_lines
        /\ Len(prev_args) = header_lines
        /\ \A k \in 1..header_lines :
              LET prev == IF k = 1 THEN NoRow ELSE SomeRow(header_rows[k - 1])
                  escaped == IF k = 1 THEN NoRow ELSE SomeRow(EscapeRow(data[k - 1]))
              IN  /\ prev_args[k] = prev
                  /\ header_rows[k] = process_header_row(EscapeRow(data[k]), prev)
                  /\ header_rows[k] = process_header_row(EscapeRow(data[k]), escaped)

\* C9 witness: a second header row was formatted after a first one whose escaped
\* and formatted forms differ.
C9_Witness ==
    /\ Converted
    /\ header_lines = 2
    /\ Len(header_rows) = 2
    /\ prev_args[2] = SomeRow(header_rows[1])
    /\ header_rows[1] # EscapeRow(data[1])

\* str.split(sep), with 'cur' the cell being read.
RECURSIVE SplitOn(_, _, _)
SplitOn(x, sep, cur) ==
    IF x = <<>> THEN <<cur>>
    ELSE IF Len(x) >= Len(sep) /\ SubSeq(x, 1, Len(sep)) = sep
         THEN <<cur>> \o SplitOn(SubSeq(x, Len(sep) + 1, Len(x)), sep, <<>>)
         ELSE SplitOn(Tail(x), sep, Append(cur, Head(x)))

\* The cells of a written line: what stands between the separators " & ".
CellsOf(text) == SplitOn(text, <<" ", "&", " ">>, <<>>)

\* The text is exactly the given cells joined by " & " (no cells: no text).
IsJoinOf(text, cells) ==
    IF cells = <<>> THEN text = <<>> ELSE CellsOf(text) = cells

\* The first write of the literal text at or after position 'from' of doc.
WriteOf(text, from) ==
    CHOOSE i \in from..Len(doc) :
        doc[i] = Lit(text) /\ \A j \in from..(i - 1) : doc[j] # Lit(text)

\* The row lines written between positions lo and hi of doc (the \bottomrule
\* that closes a header block is not one).
LinesBetween(lo, hi) ==
    LET Pick[i \in (lo - 1)..hi] ==
            IF i < lo THEN <<>>
            ELSE IF doc[i] = Lit("\\bottomrule\n") THEN Pick[i - 1]
            ELSE Append(Pick[i - 1], doc[i])
    IN  Pick[hi]

\* A written line is a row of exactly ncols cells joined by " & ", ended by \\.
IsRowOfNcols(line) ==
    /\ line.pre = ""
    /\ line.post = " \\\\\n"
    /\ \E cells \in {CellsOf(line.arg), <<>>} :
          Len(cells) = ncols /\ IsJoinOf(line.arg, cells)

====
